---- MODULE Spec2Model ----
(***************************************************************************)
(* A model of two components of brave-core:                                *)
(*   - BinanceService (components/binance/browser/binance_service.cc):     *)
(*     the OAuth/PKCE client, its token store and its REST wrappers;       *)
(*   - DatabaseServerPublisherInfo (bat ledger database): the              *)
(*     server_publisher_info table, ClearAndInsertList and GetRecord.      *)
(* The two components share no state.  Each specification below runs one   *)
(* scenario of one component and leaves the other's variables untouched.   *)
(***************************************************************************)
EXTENDS Integers, Sequences, FiniteSets, TLC

VARIABLES
    \* ---- BinanceService fields ----
    access_token_,      \* std::string access_token_
    refresh_token_,     \* std::string refresh_token_
    auth_token_,        \* std::string auth_token_ (one-time authorization code)
    code_verifier_,     \* std::string code_verifier_
    code_challenge_,    \* std::string code_challenge_
    prefs,              \* PrefService: kBinanceAccessToken, kBinanceRefreshToken
    url_loaders_,       \* SimpleURLLoaderList, front-inserted, each with its bound callback
    codeSends,          \* history: token-exchange requests that carried the code of the
                        \* latest SetAuthToken call
    last,               \* history: the last BinanceService operation and what it delivered
    \* ---- DatabaseServerPublisherInfo and the database behind it ----
    table,              \* rows of server_publisher_info
    bannerTable,        \* rows of the banner table of DatabaseServerPublisherBanner
    dbQueue,            \* transactions handed to RunDBTransaction, not yet executed
    lastDb              \* history: the last database operation and what it delivered

binanceVars == <<access_token_, refresh_token_, auth_token_, code_verifier_,
                 code_challenge_, prefs, url_loaders_, codeSends, last>>
ledgerVars == <<table, bannerTable, dbQueue, lastDb>>
vars == <<binanceVars, ledgerVars>>

(***************************************************************************)
(* Bounds of the model.                                                    *)
(***************************************************************************)
\* requests in flight at the same time
MaxLoaders == 2
\* bytes of the random seed (the code draws kSeedByteLength = 32 of them)
SeedLen == 1
\* token-exchange requests counted per authorization code
MaxSends == 2

(***************************************************************************)
(* Strings.  Ciphertexts and encodings are strings built from the          *)
(* plaintext, so that encrypting, encoding and their inverses are not the  *)
(* identity.                                                               *)
(***************************************************************************)
\* tokens a token-exchange response may carry
Tokens == {"", "acc1", "ref1", "ref2"}

\* OSCrypt::EncryptString: the call fails when the OS key store does
\* (ok = FALSE), whatever the plaintext; otherwise the empty plaintext gives
\* the empty ciphertext.
EncryptString(plaintext, ok) ==
    IF ~ok THEN [ok |-> FALSE, out |-> ""]
    ELSE IF plaintext = "" THEN [ok |-> TRUE, out |-> ""]
    ELSE [ok |-> TRUE, out |-> "v10:" \o plaintext]

\* OSCrypt::DecryptString: the inverse of EncryptString on what it produced;
\* fails on any other ciphertext, and when the OS key store does.  On failure
\* the output string is left as it was (prev).
DecryptString(ciphertext, prev, ok) ==
    IF ~ok THEN [ok |-> FALSE, out |-> prev]
    ELSE IF ciphertext = "" THEN [ok |-> TRUE, out |-> ""]
    ELSE IF \E p \in Tokens : p # "" /\ ciphertext = "v10:" \o p
         THEN [ok |-> TRUE,
               out |-> CHOOSE p \in Tokens : p # "" /\ ciphertext = "v10:" \o p]
    ELSE [ok |-> FALSE, out |-> prev]

\* ciphertexts that may be stored
Ciphertexts == {EncryptString(p, TRUE).out : p \in Tokens} \cup {"garbage"}

\* base::Base64Encode
Base64Encode(input) == IF input = "" THEN "" ELSE "b64(" \o input \o ")"

\* base::Base64Decode: fails on a string that is not an encoding
Base64Decode(input) ==
    IF \E c \in Ciphertexts : Base64Encode(c) = input
    THEN [ok |-> TRUE, out |-> CHOOSE c \in Ciphertexts : Base64Encode(c) = input]
    ELSE [ok |-> FALSE, out |-> ""]

\* preference values a damaged preference file may hold: not base64 at all, or
\* the encoding of something that is no ciphertext
CorruptValues == {"!!", Base64Encode("garbage")}

(***************************************************************************)
(* HTTP responses.                                                         *)
(***************************************************************************)
\* sample response bodies
NotJson == "<html>"
JsonTokens == "{access_token:acc1,refresh_token:ref1}"
JsonRefreshOnly == "{refresh_token:ref2}"
JsonData == "{success:true,data}"

\* what SimpleURLLoader hands to OnURLLoaderComplete
Response(info, code, hasBody, body) ==
    [info |-> info, code |-> code, hasBody |-> hasBody, body |-> body]

\* sample responses: whether ResponseInfo() and its headers exist, the response
\* code in them, and the body (which may be null).  Every body that parses is
\* delivered with a code inside and with a code outside [200, 299].
Responses ==
    { Response(FALSE, 0, FALSE, ""),
      Response(TRUE, 200, TRUE, JsonTokens),
      Response(TRUE, 200, TRUE, JsonRefreshOnly),
      Response(TRUE, 200, TRUE, JsonData),
      Response(TRUE, 200, TRUE, NotJson),
      Response(TRUE, 299, TRUE, JsonData),
      Response(TRUE, 199, TRUE, JsonData),
      Response(TRUE, 300, TRUE, JsonTokens),
      Response(TRUE, 404, TRUE, JsonTokens),
      Response(TRUE, 500, TRUE, JsonData) }

(***************************************************************************)
(* BinanceJSONParser.  Each function leaves its output parameters as they  *)
(* were (prev) when the body is no JSON or lacks the field.                *)
(***************************************************************************)
GetTokensFromJSON(body, prev, type) ==
    IF body = JsonTokens /\ type = "access_token" THEN "acc1"
    ELSE IF body = JsonTokens /\ type = "refresh_token" THEN "ref1"
    ELSE IF body = JsonRefreshOnly /\ type = "refresh_token" THEN "ref2"
    ELSE prev

GetAccountBalancesFromJSON(body, prev) ==
    IF body = JsonData THEN {<<"BTC", "1.5">>} ELSE prev

GetQuoteInfoFromJSON(body, prev) ==
    IF body = JsonData
    THEN [quote_id |-> "q7", quote_price |-> "9000.00",
          total_fee |-> "0.1", total_amount |-> "2"]
    ELSE prev

GetTickerPriceFromJSON(body, prev) ==
    IF body = JsonData THEN "9000.00" ELSE prev

GetTickerVolumeFromJSON(body, prev) ==
    IF body = JsonData THEN "1234" ELSE prev

GetDepositInfoFromJSON(body, prev) ==
    IF body = JsonData
    THEN [deposit_address |-> "addr", deposit_url |-> "https://deposit"]
    ELSE prev

GetConfirmStatusFromJSON(body, prev) ==
    IF body = JsonData
    THEN [success_status |-> TRUE, error_message |-> ""]
    ELSE IF body = JsonRefreshOnly
    THEN [success_status |-> FALSE, error_message |-> "unexpected"]
    ELSE prev

GetConvertAssetsFromJSON(body, prev) ==
    IF body = JsonData THEN {<<"BTC", <<"ETH">>>>} ELSE prev

RevokeTokenFromJSON(body, prev) ==
    IF body = JsonData THEN TRUE ELSE prev

(***************************************************************************)
(* PKCE.                                                                   *)
(***************************************************************************)
HexDigits == <<"0", "1", "2", "3", "4", "5", "6", "7",
               "8", "9", "A", "B", "C", "D", "E", "F">>

\* byte values crypto::RandBytes may draw
SampleBytes == {10, 243}

RECURSIVE HexEncode(_)
\* base::HexEncode
HexEncode(bytes) ==
    IF bytes = <<>> THEN ""
    ELSE HexDigits[(Head(bytes) \div 16) + 1] \o HexDigits[(Head(bytes) % 16) + 1]
         \o HexEncode(Tail(bytes))

\* GetHexEncodedCryptoRandomSeed, for the random bytes drawn
GetHexEncodedCryptoRandomSeed(random_seed_bytes) == HexEncode(random_seed_bytes)

\* BinanceService::GetCodeChallenge: SHA-256, base64, '+' -> '-', '/' -> '_',
\* trailing '=' stripped.  The digest is kept symbolic: an injective, non-empty
\* string of the verifier.
GetCodeChallenge(code_verifier) == "S256(" \o code_verifier \o ")"

(***************************************************************************)
(* The token store.                                                        *)
(***************************************************************************)
\* SetAccessTokens as it would be with each preference written as soon as its
\* string is encrypted
SetAccessTokensWritingEarly(access_token, refresh_token, pf, enc) ==
    LET ea == EncryptString(access_token, enc.access)
        er == EncryptString(refresh_token, enc.refresh)
        pa == [pf EXCEPT !.kBinanceAccessToken = Base64Encode(ea.out)]
    IN  IF ~ea.ok
        THEN [access_token_ |-> access_token, refresh_token_ |-> refresh_token,
              prefs |-> pf, ret |-> FALSE]
        ELSE IF ~er.ok
        THEN [access_token_ |-> access_token, refresh_token_ |-> refresh_token,
              prefs |-> pa, ret |-> FALSE]
        ELSE [access_token_ |-> access_token, refresh_token_ |-> refresh_token,
              prefs |-> [pa EXCEPT !.kBinanceRefreshToken = Base64Encode(er.out)],
              ret |-> TRUE]

\* BinanceService::SetAccessTokens, from preferences pf; enc says whether OSCrypt
\* can encrypt the access and the refresh token.  Gives the fields, the
\* preferences and the return value.
SetAccessTokens(access_token, refresh_token, pf, enc) ==
    LET ea == EncryptString(access_token, enc.access)
        er == EncryptString(refresh_token, enc.refresh)
    IN  IF ~ea.ok
        THEN [access_token_ |-> access_token, refresh_token_ |-> refresh_token,
              prefs |-> pf, ret |-> FALSE]
        ELSE IF ~er.ok
        THEN [access_token_ |-> access_token, refresh_token_ |-> refresh_token,
              prefs |-> pf, ret |-> FALSE]
        ELSE [access_token_ |-> access_token, refresh_token_ |-> refresh_token,
              prefs |-> [kBinanceAccessToken |-> Base64Encode(ea.out),
                         kBinanceRefreshToken |-> Base64Encode(er.out)],
              ret |-> TRUE]

\* LoadTokensFromPrefs as it would be with the access ciphertext decrypted into
\* both fields
LoadTokensFromPrefsSameCiphertext(pf, access, refresh, dec) ==
    LET da == Base64Decode(pf.kBinanceAccessToken)
        dr == Base64Decode(pf.kBinanceRefreshToken)
        pa == DecryptString(da.out, access, dec.access)
        pr == DecryptString(da.out, refresh, dec.refresh)
    IN  IF ~da.ok \/ ~dr.ok
        THEN [access_token_ |-> access, refresh_token_ |-> refresh, ret |-> FALSE]
        ELSE IF ~pa.ok
        THEN [access_token_ |-> pa.out, refresh_token_ |-> refresh, ret |-> FALSE]
        ELSE IF ~pr.ok
        THEN [access_token_ |-> pa.out, refresh_token_ |-> pr.out, ret |-> FALSE]
        ELSE [access_token_ |-> pa.out, refresh_token_ |-> pr.out, ret |-> TRUE]

\* BinanceService::LoadTokensFromPrefs, with the fields as they are (access,
\* refresh); dec says whether OSCrypt can decrypt each value.  Gives the fields
\* and the return value.
LoadTokensFromPrefs(pf, access, refresh, dec) ==
    LET da == Base64Decode(pf.kBinanceAccessToken)
        dr == Base64Decode(pf.kBinanceRefreshToken)
        pa == DecryptString(da.out, access, dec.access)
        pr == DecryptString(dr.out, refresh, dec.refresh)
    IN  IF ~da.ok \/ ~dr.ok
        THEN [access_token_ |-> access, refresh_token_ |-> refresh, ret |-> FALSE]
        ELSE IF ~pa.ok
        THEN [access_token_ |-> pa.out, refresh_token_ |-> refresh, ret |-> FALSE]
        ELSE IF ~pr.ok
        THEN [access_token_ |-> pa.out, refresh_token_ |-> pr.out, ret |-> FALSE]
        ELSE [access_token_ |-> pa.out, refresh_token_ |-> pr.out, ret |-> TRUE]

\* whether OSCrypt succeeds on the first and on the second string of a call
\* (when the first fails the second is never tried)
CryptOutcomes == {[access |-> TRUE, refresh |-> TRUE],
                  [access |-> FALSE, refresh |-> TRUE],
                  [access |-> TRUE, refresh |-> FALSE]}

\* no SetAccessTokens call was made
NoSet == [called |-> FALSE, access |-> "", refresh |-> "", ret |-> FALSE,
          failed |-> "none"]

\* which EncryptString call of SetAccessTokens(access_token, refresh_token)
\* fails under enc, if any
FailedEncryption(access_token, refresh_token, enc) ==
    IF ~EncryptString(access_token, enc.access).ok THEN "access"
    ELSE IF ~EncryptString(refresh_token, enc.refresh).ok THEN "refresh"
    ELSE "none"

(***************************************************************************)
(* BinanceService: requests.                                               *)
(***************************************************************************)
tokenFields == <<access_token_, refresh_token_, prefs>>
pkceFields == <<code_verifier_, code_challenge_>>
authFields == <<auth_token_, codeSends>>

\* BinanceService::OAuthRequest: a new loader, with the callback bound to its
\* completion, is inserted at the front of url_loaders_ and started.
OAuthRequest(callback) ==
    /\ Len(url_loaders_) < MaxLoaders
    /\ url_loaders_' = <<[callback |-> callback]>> \o url_loaders_

\* BinanceService::GetOAuthClientUrl, for the random bytes drawn
GetOAuthClientUrl(random_seed_bytes) ==
    /\ code_verifier_' = GetHexEncodedCryptoRandomSeed(random_seed_bytes)
    /\ code_challenge_' = GetCodeChallenge(code_verifier_')
    /\ last' = [op |-> "GetOAuthClientUrl", code_challenge |-> code_challenge_']
    /\ UNCHANGED <<tokenFields, authFields, url_loaders_>>

\* BinanceService::SetAuthToken
SetAuthToken(auth_token) ==
    /\ auth_token_' = auth_token
    /\ codeSends' = 0
    /\ last' = [op |-> "SetAuthToken", code |-> auth_token]
    /\ UNCHANGED <<tokenFields, pkceFields, url_loaders_>>

\* GetAccessToken as it would be without auth_token_.clear()
GetAccessTokenKeepingCode ==
    /\ OAuthRequest("OnGetAccessToken")
    /\ codeSends' = IF auth_token_ # "" /\ codeSends < MaxSends THEN codeSends + 1
                    ELSE codeSends
    /\ last' = [op |-> "GetAccessToken", code |-> auth_token_,
                code_verifier |-> code_verifier_]
    /\ UNCHANGED <<tokenFields, pkceFields, auth_token_>>

\* BinanceService::GetAccessToken: the code and the verifier go into the
\* request's query, then the stored code is cleared.
GetAccessToken ==
    /\ OAuthRequest("OnGetAccessToken")
    /\ codeSends' = IF auth_token_ # "" /\ codeSends < MaxSends THEN codeSends + 1
                    ELSE codeSends
    /\ auth_token_' = ""
    /\ last' = [op |-> "GetAccessToken", code |-> auth_token_,
                code_verifier |-> code_verifier_]
    /\ UNCHANGED <<tokenFields, pkceFields>>

\* GetAccountBalances, GetConvertQuote, GetTickerPrice, GetTickerVolume,
\* GetDepositInfo, ConfirmConvert, GetConvertAssets, RevokeToken: each binds
\* its handler and starts one request.
Request(op, callback) ==
    /\ OAuthRequest(callback)
    /\ last' = [op |-> op, access_token |-> access_token_]
    /\ UNCHANGED <<tokenFields, pkceFields, authFields>>

GetAccountBalances == Request("GetAccountBalances", "OnGetAccountBalances")
GetConvertQuote == Request("GetConvertQuote", "OnGetConvertQuote")
GetTickerPrice == Request("GetTickerPrice", "OnGetTickerPrice")
GetTickerVolume == Request("GetTickerVolume", "OnGetTickerVolume")
GetDepositInfo == Request("GetDepositInfo", "OnGetDepositInfo")
ConfirmConvert == Request("ConfirmConvert", "OnConfirmConvert")
GetConvertAssets == Request("GetConvertAssets", "OnGetConvertAssets")
RevokeToken == Request("RevokeToken", "OnRevokeToken")

(***************************************************************************)
(* BinanceService: completion handlers.  Each gives the sequence of runs   *)
(* of the caller's callback, with the arguments of each run; the two that  *)
(* touch the token store are actions.                                      *)
(***************************************************************************)
Is2xx(status) == status >= 200 /\ status <= 299

\* OnGetAccountBalances as it would be if it returned early on a failed request
OnGetAccountBalancesSilentOnFailure(status, body) ==
    IF Is2xx(status)
    THEN <<[balances |-> GetAccountBalancesFromJSON(body, {}), success |-> TRUE]>>
    ELSE <<>>

OnGetAccountBalances(status, body) ==
    LET success == Is2xx(status)
        balances == IF success THEN GetAccountBalancesFromJSON(body, {}) ELSE {}
    IN  <<[balances |-> balances, success |-> success]>>

EmptyQuote == [quote_id |-> "", quote_price |-> "", total_fee |-> "",
               total_amount |-> ""]

\* OnGetConvertQuote as it would be if it parsed the body whatever the status
OnGetConvertQuoteAlwaysParsing(status, body) ==
    <<GetQuoteInfoFromJSON(body, EmptyQuote)>>

OnGetConvertQuote(status, body) ==
    <<IF Is2xx(status) THEN GetQuoteInfoFromJSON(body, EmptyQuote) ELSE EmptyQuote>>

OnGetTickerPrice(status, body) ==
    <<[symbol_pair_price |->
          IF Is2xx(status) THEN GetTickerPriceFromJSON(body, "0.00") ELSE "0.00"]>>

OnGetTickerVolume(status, body) ==
    <<[symbol_pair_volume |->
          IF Is2xx(status) THEN GetTickerVolumeFromJSON(body, "0") ELSE "0"]>>

EmptyDeposit == [deposit_address |-> "", deposit_url |-> ""]

OnGetDepositInfo(status, body) ==
    LET success == Is2xx(status)
        info == IF success THEN GetDepositInfoFromJSON(body, EmptyDeposit)
                ELSE EmptyDeposit
    IN  <<[deposit_address |-> info.deposit_address,
           deposit_url |-> info.deposit_url, success |-> success]>>

NoConfirm == [success_status |-> FALSE, error_message |-> ""]

OnConfirmConvert(status, body) ==
    <<IF Is2xx(status) THEN GetConfirmStatusFromJSON(body, NoConfirm) ELSE NoConfirm>>

OnGetConvertAssets(status, body) ==
    <<[assets |-> IF Is2xx(status) THEN GetConvertAssetsFromJSON(body, {}) ELSE {}]>>

\* the handlers that leave every field alone
Forward(op, status, body, calls) ==
    /\ last' = [op |-> op, status |-> status, body |-> body, calls |-> calls]
    /\ UNCHANGED <<tokenFields, pkceFields, authFields>>

\* BinanceService::OnGetAccessToken
OnGetAccessToken(status, body, enc) ==
    LET access_token == IF Is2xx(status)
                        THEN GetTokensFromJSON(body, "", "access_token") ELSE ""
        refresh_token == IF Is2xx(status)
                         THEN GetTokensFromJSON(body, "", "refresh_token") ELSE ""
        set == SetAccessTokens(access_token, refresh_token, prefs, enc)
    IN  /\ IF Is2xx(status)
           THEN /\ access_token_' = set.access_token_
                /\ refresh_token_' = set.refresh_token_
                /\ prefs' = set.prefs
           ELSE UNCHANGED tokenFields
        /\ last' = [op |-> "OnGetAccessToken", status |-> status, body |-> body,
                    calls |-> <<[valid |-> access_token # ""]>>,
                    set |-> IF Is2xx(status)
                            THEN [called |-> TRUE, access |-> access_token,
                                  refresh |-> refresh_token, ret |-> set.ret,
                                  failed |-> FailedEncryption(access_token,
                                                 refresh_token, enc)]
                            ELSE NoSet]
        /\ UNCHANGED <<pkceFields, authFields>>

\* BinanceService::OnRevokeToken
OnRevokeToken(status, body, enc) ==
    LET success == IF Is2xx(status) THEN RevokeTokenFromJSON(body, FALSE) ELSE FALSE
        set == SetAccessTokens("", "", prefs, enc)
    IN  /\ IF success
           THEN /\ code_challenge_' = ""
                /\ code_verifier_' = ""
                /\ access_token_' = set.access_token_
                /\ refresh_token_' = set.refresh_token_
                /\ prefs' = set.prefs
           ELSE UNCHANGED <<tokenFields, pkceFields>>
        /\ last' = [op |-> "OnRevokeToken", status |-> status, body |-> body,
                    calls |-> <<[success |-> success]>>,
                    held |-> access_token_,
                    set |-> IF success
                            THEN [called |-> TRUE, access |-> "", refresh |-> "",
                                  ret |-> set.ret,
                                  failed |-> FailedEncryption("", "", enc)]
                            ELSE NoSet]
        /\ UNCHANGED authFields

\* the callback bound by OAuthRequest, run with the response
RunCallback(callback, status, body, enc) ==
    CASE callback = "OnGetAccessToken" -> OnGetAccessToken(status, body, enc)
      [] callback = "OnRevokeToken" -> OnRevokeToken(status, body, enc)
      [] callback = "OnGetAccountBalances" ->
            Forward(callback, status, body, OnGetAccountBalances(status, body))
      [] callback = "OnGetConvertQuote" ->
            Forward(callback, status, body, OnGetConvertQuote(status, body))
      [] callback = "OnGetTickerPrice" ->
            Forward(callback, status, body, OnGetTickerPrice(status, body))
      [] callback = "OnGetTickerVolume" ->
            Forward(callback, status, body, OnGetTickerVolume(status, body))
      [] callback = "OnGetDepositInfo" ->
            Forward(callback, status, body, OnGetDepositInfo(status, body))
      [] callback = "OnConfirmConvert" ->
            Forward(callback, status, body, OnConfirmConvert(status, body))
      [] callback = "OnGetConvertAssets" ->
            Forward(callback, status, body, OnGetConvertAssets(status, body))

\* OnURLLoaderComplete as it would be if it erased url_loaders_.begin()
EraseFront(loaders, iter) == Tail(loaders)

\* url_loaders_.erase(iter).  A list iterator stays with its element while
\* others are inserted and erased, so iter is the element's present position.
Erase(loaders, iter) ==
    SubSeq(loaders, 1, iter - 1) \o SubSeq(loaders, iter + 1, Len(loaders))

\* BinanceService::OnURLLoaderComplete for the loader behind iter: the response
\* code is -1 without response headers, the loader is erased, and the bound
\* callback runs with the code and the body ("" for a null body).
OnURLLoaderComplete(iter, resp, enc) ==
    LET loader == url_loaders_[iter]
        response_code == IF resp.info THEN resp.code ELSE -1
        body == IF resp.hasBody THEN resp.body ELSE ""
    IN  /\ url_loaders_' = Erase(url_loaders_, iter)
        /\ RunCallback(loader.callback, response_code, body, enc)

(***************************************************************************)
(* BinanceService: construction.                                           *)
(***************************************************************************)
\* what may have happened to the preference file while the browser was down
Damages == {[key |-> k, value |-> v] :
               k \in {"kBinanceAccessToken", "kBinanceRefreshToken"},
               v \in CorruptValues}

\* BinanceService::BinanceService on the preferences pf: fresh fields, no
\* loaders, then LoadTokensFromPrefs.
Construct(pf, dec) ==
    LET load == LoadTokensFromPrefs(pf, "", "", dec)
    IN  /\ prefs' = pf
        /\ access_token_' = load.access_token_
        /\ refresh_token_' = load.refresh_token_
        /\ auth_token_' = ""
            /\ codeSends' = 0
        /\ code_verifier_' = ""
        /\ code_challenge_' = ""
        /\ url_loaders_' = <<>>
        /\ last' = [op |-> "LoadTokensFromPrefs", ret |-> load.ret, dec |-> dec,
                    damaged |-> pf # prefs,
                    after |-> IF last.op \in {"OnGetAccessToken", "OnRevokeToken"}
                              THEN last.set ELSE NoSet]

\* the browser restarts: the service is destroyed with its loaders and
\* constructed again on the preferences that were stored
Restart(dec) == Construct(prefs, dec)

\* the browser restarts on a preference file damaged in the meantime
RestartDamaged(damage, dec) ==
    Construct([prefs EXCEPT ![damage.key] = damage.value], dec)

(***************************************************************************)
(* The ledger database: values.                                            *)
(***************************************************************************)
\* a null pointer, and a pointer to a value
Null == <<>>
Some(value) == <<value>>

\* bounds of the ledger model
\* entries of a list given to ClearAndInsertList
MaxListLen == 2
\* transactions handed to the database and not yet executed
MaxQueue == 2
\* records of a response given to OnGetRecord
MaxRecords == 2

PublisherKeys == {"k1", "k2"}
\* ledger::PublisherBanner, by its title; PublisherBanner::New() is empty
Banners == {[title |-> "b1"], [title |-> "b2"]}
EmptyBanner == [title |-> ""]

ServerPublisherInfo(publisher_key, status, excluded, address, banner) ==
    [publisher_key |-> publisher_key, status |-> status, excluded |-> excluded,
     address |-> address, banner |-> banner]

\* sample publishers: two states of k1 (the second without a banner) and two of k2
Infos ==
    { ServerPublisherInfo("k1", 0, FALSE, "a0", Some([title |-> "b1"])),
      ServerPublisherInfo("k1", 2, TRUE, "a1", Null),
      ServerPublisherInfo("k2", 2, FALSE, "a1", Some([title |-> "b2"])),
      ServerPublisherInfo("k2", 0, TRUE, "a0", Some([title |-> "b1"])) }

\* the entries of a ServerPublisherInfoList: pointers, some of them null
Entries == {Null} \cup {Some(info) : info \in Infos}

ListsOfLen(n) == [1..n -> Entries]
Lists == UNION {ListsOfLen(n) : n \in 0..MaxListLen}

(***************************************************************************)
(* The ledger database: commands and the engine that runs them.            *)
(***************************************************************************)
table_name_ == "server_publisher_info"
banner_table_name == "server_publisher_banner"

DBCommand(type, command, binds) ==
    [type |-> type, command |-> command, binds |-> binds]

\* the database engine on one command: db holds the two tables and the records
\* read so far.  INSERT OR REPLACE drops the row with the same key first (the key
\* is the primary key); a bool is stored as 0 or 1 and read back through the
\* BOOL_TYPE binding.
RunCommand(cmd, db) ==
    IF cmd.type = "EXECUTE" /\ cmd.command = "DELETE FROM " \o table_name_
    THEN [db EXCEPT !.table = {}]
    ELSE IF cmd.type = "RUN" /\ cmd.command = "INSERT OR REPLACE INTO " \o table_name_
    THEN [db EXCEPT !.table =
              {r \in @ : r.publisher_key # cmd.binds[1]} \cup
              {[publisher_key |-> cmd.binds[1], status |-> cmd.binds[2],
                excluded |-> IF cmd.binds[3] THEN 1 ELSE 0,
                address |-> cmd.binds[4]]}]
    ELSE IF cmd.type = "RUN"
            /\ cmd.command = "INSERT OR REPLACE INTO " \o banner_table_name
    THEN [db EXCEPT !.bannerTable =
              {r \in @ : r.publisher_key # cmd.binds[1]} \cup
              {[publisher_key |-> cmd.binds[1], title |-> cmd.binds[2]]}]
    ELSE IF cmd.type = "READ" /\ cmd.command = "SELECT FROM " \o table_name_
    THEN [db EXCEPT !.records =
              IF \E r \in db.table : r.publisher_key = cmd.binds[1]
              THEN LET r == CHOOSE r \in db.table : r.publisher_key = cmd.binds[1]
                   IN  <<<<r.status, r.excluded # 0, r.address>>>>
              ELSE <<>>]
    ELSE IF cmd.type = "READ" /\ cmd.command = "SELECT FROM " \o banner_table_name
    THEN [db EXCEPT !.records =
              IF \E r \in db.bannerTable : r.publisher_key = cmd.binds[1]
              THEN LET r == CHOOSE r \in db.bannerTable :
                                r.publisher_key = cmd.binds[1]
                   IN  <<<<r.title>>>>
              ELSE <<>>]
    ELSE db

RECURSIVE RunCommands(_, _)
\* the commands of a transaction, in order
RunCommands(commands, db) ==
    IF commands = <<>> THEN db
    ELSE RunCommands(Tail(commands), RunCommand(Head(commands), db))

(***************************************************************************)
(* DatabaseServerPublisherBanner, the sibling store of the banners.        *)
(***************************************************************************)
\* DatabaseServerPublisherBanner::InsertOrUpdate: the banner of info, keyed by
\* the publisher key, appended to the transaction
BannerInsertOrUpdate(transaction, info) ==
    IF info = Null \/ info[1].banner = Null THEN transaction
    ELSE Append(transaction,
                DBCommand("RUN", "INSERT OR REPLACE INTO " \o banner_table_name,
                          <<info[1].publisher_key, info[1].banner[1].title>>))

\* DatabaseServerPublisherBanner::GetRecord: the transaction that reads the banner
BannerGetRecord(publisher_key) ==
    <<DBCommand("READ", "SELECT FROM " \o banner_table_name, <<publisher_key>>)>>

\* DatabaseServerPublisherBanner::OnGetRecord: the banner handed to the
\* callback, null unless exactly one row was read
BannerOnGetRecord(response) ==
    IF response = Null \/ response[1].status # "OK" THEN Null
    ELSE IF Len(response[1].records) # 1 THEN Null
    ELSE Some([title |-> response[1].records[1][1]])

(***************************************************************************)
(* DatabaseServerPublisherInfo.                                            *)
(***************************************************************************)
\* DatabaseServerPublisherInfo::InsertOrUpdate: the transaction with the
\* command appended, or as it was for a null info
InsertOrUpdate(transaction, info) ==
    IF info = Null THEN transaction
    ELSE Append(transaction,
                DBCommand("RUN", "INSERT OR REPLACE INTO " \o table_name_,
                          <<info[1].publisher_key, info[1].status,
                            info[1].excluded, info[1].address>>))

RECURSIVE InsertList(_, _)
\* the loop of ClearAndInsertList over the list
InsertList(transaction, list) ==
    IF list = <<>> THEN transaction
    ELSE IF Head(list) = Null THEN InsertList(transaction, Tail(list))
    ELSE LET withInfo == InsertOrUpdate(transaction, Head(list))
             withBanner == IF Head(list)[1].banner # Null
                           THEN BannerInsertOrUpdate(withInfo, Head(list))
                           ELSE withInfo
         IN  InsertList(withBanner, Tail(list))

\* the transaction of ClearAndInsertList as it would be without the DELETE
ClearAndInsertCommandsWithoutDelete(list) == InsertList(<<>>, list)

\* the commands of the transaction ClearAndInsertList builds for list
ClearAndInsertCommands(list) ==
    LET transaction == <<DBCommand("EXECUTE", "DELETE FROM " \o table_name_, <<>>)>>
    IN  IF Len(list) = 0 THEN transaction
        ELSE InsertList(transaction, list)

\* a transaction handed to LedgerImpl::RunDBTransaction with its callback
Transaction(commands, callback) == [commands |-> commands, callback |-> callback]

\* DatabaseServerPublisherInfo::ClearAndInsertList
ClearAndInsertList(list) ==
    /\ dbQueue' = Append(dbQueue,
           Transaction(ClearAndInsertCommands(list),
                       [fn |-> "OnResultCallback", list |-> list]))
    /\ lastDb' = [op |-> "ClearAndInsertList"]
    /\ UNCHANGED <<table, bannerTable>>

\* DatabaseServerPublisherInfo::GetRecord: the banner is fetched first
GetRecord(publisher_key) ==
    /\ dbQueue' = Append(dbQueue,
           Transaction(BannerGetRecord(publisher_key),
                       [fn |-> "OnGetRecordBanner", publisher_key |-> publisher_key]))
    /\ lastDb' = [op |-> "GetRecord"]
    /\ UNCHANGED <<table, bannerTable>>

\* DatabaseServerPublisherInfo::OnGetRecordBanner: the transaction that selects
\* the row, with the banner (an empty one for null) bound to its callback
OnGetRecordBanner(banner, publisher_key) ==
    Transaction(<<DBCommand("READ", "SELECT FROM " \o table_name_, <<publisher_key>>)>>,
                [fn |-> "OnGetRecord", publisher_key |-> publisher_key,
                 banner |-> IF banner = Null THEN EmptyBanner ELSE banner[1]])

\* OnGetRecord as it would be if it only rejected an empty result
OnGetRecordFirstOfMany(response, publisher_key, banner) ==
    IF response = Null \/ response[1].status # "OK" THEN <<Null>>
    ELSE IF Len(response[1].records) = 0 THEN <<Null>>
    ELSE LET record == response[1].records[1]
         IN  <<Some(ServerPublisherInfo(publisher_key, record[1], record[2],
                                        record[3], Some(banner)))>>

\* DatabaseServerPublisherInfo::OnGetRecord: the runs of the caller's callback,
\* each with the record it is given
OnGetRecord(response, publisher_key, banner) ==
    IF response = Null \/ response[1].status # "OK" THEN <<Null>>
    ELSE IF Len(response[1].records) # 1 THEN <<Null>>
    ELSE LET record == response[1].records[1]
         IN  <<Some(ServerPublisherInfo(publisher_key, record[1], record[2],
                                        record[3], Some(banner)))>>

\* OnResultCallback of database_util: the caller's callback runs once with
\* LEDGER_OK or LEDGER_ERROR
OnResultCallback(response) ==
    IF response # Null /\ response[1].status = "OK"
    THEN <<"LEDGER_OK">> ELSE <<"LEDGER_ERROR">>

\* the response of the engine to a transaction: every command applied, or none
\* and RESPONSE_ERROR
DBResponse(transaction, ok) ==
    LET db == RunCommands(transaction.commands,
                  [table |-> table, bannerTable |-> bannerTable, records |-> <<>>])
    IN  IF ok THEN [db |-> db, response |-> Some([status |-> "OK",
                                                  records |-> db.records])]
        ELSE [db |-> [table |-> table, bannerTable |-> bannerTable],
              response |-> Some([status |-> "RESPONSE_ERROR", records |-> <<>>])]

\* LedgerImpl::RunDBTransaction reaches the oldest transaction: the engine runs
\* it as a whole and its callback runs with the response.
RunDBTransaction(ok) ==
    /\ dbQueue # <<>>
    /\ LET transaction == Head(dbQueue)
           run == DBResponse(transaction, ok)
           cb == transaction.callback
       IN  /\ table' = run.db.table
           /\ bannerTable' = run.db.bannerTable
           /\ CASE cb.fn = "OnResultCallback" ->
                     /\ dbQueue' = Tail(dbQueue)
                     /\ lastDb' = [op |-> "OnResultCallback", list |-> cb.list,
                                   before |-> table,
                                   response |-> run.response,
                                   calls |-> OnResultCallback(run.response)]
                [] cb.fn = "OnGetRecordBanner" ->
                     /\ dbQueue' = Append(Tail(dbQueue),
                            OnGetRecordBanner(BannerOnGetRecord(run.response),
                                              cb.publisher_key))
                     /\ lastDb' = [op |-> "OnGetRecordBanner"]
                [] cb.fn = "OnGetRecord" ->
                     /\ dbQueue' = Tail(dbQueue)
                     /\ lastDb' = [op |-> "OnGetRecord",
                                   publisher_key |-> cb.publisher_key,
                                   banner |-> cb.banner,
                                   response |-> run.response,
                                   calls |-> OnGetRecord(run.response,
                                                cb.publisher_key, cb.banner)]

(***************************************************************************)
(* DatabaseServerPublisherInfo: migration.  A transaction is null or a      *)
(* sequence of commands; each step gives the transaction it leaves and the  *)
(* value it returns.  The steps of the base class and of the banner store   *)
(* fail or not as `ok` says, and a failed step appends nothing.             *)
(***************************************************************************)
\* targets Migrate is called with: 0..MaxTarget
MaxTarget == 16
Targets == 0..MaxTarget

\* DropTable of the database utilities
DropTable(transaction, table_name, ok) ==
    IF ok
    THEN [ret |-> TRUE,
          transaction |-> Append(transaction,
              DBCommand("EXECUTE", "DROP TABLE IF EXISTS " \o table_name, <<>>))]
    ELSE [ret |-> FALSE, transaction |-> transaction]

\* DatabaseServerPublisherInfo::CreateTableV7: always appends, always succeeds
CreateTableV7(transaction) ==
    [ret |-> TRUE,
     transaction |-> Append(transaction,
         DBCommand("EXECUTE", "CREATE TABLE " \o table_name_, <<>>))]

\* DatabaseTable::InsertIndex
InsertIndex(transaction, table_name, key, ok) ==
    IF ok
    THEN [ret |-> TRUE,
          transaction |-> Append(transaction,
              DBCommand("EXECUTE",
                        "CREATE INDEX ON " \o table_name \o " (" \o key \o ")",
                        <<>>))]
    ELSE [ret |-> FALSE, transaction |-> transaction]

\* DatabaseServerPublisherInfo::CreateIndexV7
CreateIndexV7(transaction, ok) ==
    InsertIndex(transaction, table_name_, "publisher_key", ok)

\* DatabaseServerPublisherBanner::Migrate: the banner store's own migration
\* to target, kept as one command
BannerMigrate(transaction, target, ok) ==
    IF ok
    THEN [ret |-> TRUE,
          transaction |-> Append(transaction,
              DBCommand("EXECUTE", "MIGRATE " \o banner_table_name, <<target>>))]
    ELSE [ret |-> FALSE, transaction |-> transaction]

\* DatabaseServerPublisherInfo::MigrateToV7
MigrateToV7(transaction, ok) ==
    LET drop == DropTable(transaction, table_name_, ok.drop)
        create == CreateTableV7(drop.transaction)
        index == CreateIndexV7(create.transaction, ok.index)
        banner == BannerMigrate(index.transaction, 7, ok.banner)
    IN  IF ~drop.ret THEN [ret |-> FALSE, transaction |-> drop.transaction]
        ELSE IF ~create.ret THEN [ret |-> FALSE, transaction |-> create.transaction]
        ELSE IF ~index.ret THEN [ret |-> FALSE, transaction |-> index.transaction]
        ELSE IF ~banner.ret THEN [ret |-> FALSE, transaction |-> banner.transaction]
        ELSE [ret |-> TRUE, transaction |-> banner.transaction]

\* DatabaseServerPublisherInfo::MigrateToV15
MigrateToV15(transaction, ok) == BannerMigrate(transaction, 15, ok.banner)

\* Migrate as it would be if it ran every migration up to the target
MigrateUpTo(transaction, target, ok) ==
    IF transaction = Null THEN [ret |-> FALSE, transaction |-> Null]
    ELSE LET done == IF target >= 15 THEN MigrateToV15(transaction[1], ok)
                     ELSE IF target >= 7 THEN MigrateToV7(transaction[1], ok)
                     ELSE [ret |-> TRUE, transaction |-> transaction[1]]
         IN  [ret |-> done.ret, transaction |-> Some(done.transaction)]

\* DatabaseServerPublisherInfo::Migrate on a transaction pointer
Migrate(transaction, target, ok) ==
    IF transaction = Null THEN [ret |-> FALSE, transaction |-> Null]
    ELSE LET done == CASE target = 7 -> MigrateToV7(transaction[1], ok)
                       [] target = 15 -> MigrateToV15(transaction[1], ok)
                       [] OTHER -> [ret |-> TRUE, transaction |-> transaction[1]]
         IN  [ret |-> done.ret, transaction |-> Some(done.transaction)]

(***************************************************************************)
(* Initial states.                                                         *)
(***************************************************************************)
\* a service constructed on empty preferences: LoadTokensFromPrefs succeeds
\* with two empty tokens
InitBinance ==
    /\ prefs = [kBinanceAccessToken |-> "", kBinanceRefreshToken |-> ""]
    /\ access_token_ = ""
    /\ refresh_token_ = ""
    /\ auth_token_ = ""
    /\ codeSends = 0
    /\ code_verifier_ = ""
    /\ code_challenge_ = ""
    /\ url_loaders_ = <<>>
    /\ last = [op |-> "LoadTokensFromPrefs", ret |-> TRUE,
               dec |-> [access |-> TRUE, refresh |-> TRUE],
               damaged |-> FALSE, after |-> NoSet]

InitLedger ==
    /\ table = {}
    /\ bannerTable = {}
    /\ dbQueue = <<>>
    /\ lastDb = [op |-> "none"]

Init == InitBinance /\ InitLedger

(***************************************************************************)
(* The OAuth flow and the token store.                                     *)
(***************************************************************************)
Seeds == [1..SeedLen -> SampleBytes]
\* authorization codes the redirect may carry
AuthCodes == {"code1", "code2"}

\* the handlers that call SetAccessTokens
StoresTokens(callback) == callback \in {"OnGetAccessToken", "OnRevokeToken"}

AllCrypt == [access |-> TRUE, refresh |-> TRUE]

\* a transfer completes; OSCrypt is only reached by the handlers that store
CompleteStoring ==
    \E i \in 1..Len(url_loaders_), resp \in Responses, enc \in CryptOutcomes :
        /\ StoresTokens(url_loaders_[i].callback)
        /\ OnURLLoaderComplete(i, resp, enc)
        /\ UNCHANGED ledgerVars

CompleteForwarding ==
    \E i \in 1..Len(url_loaders_), resp \in Responses :
        /\ ~StoresTokens(url_loaders_[i].callback)
        /\ OnURLLoaderComplete(i, resp, AllCrypt)
        /\ UNCHANGED ledgerVars

\* one browser session: authorization, token exchange, revocation
NextOAuth ==
    \/ \E seed \in Seeds : GetOAuthClientUrl(seed) /\ UNCHANGED ledgerVars
    \/ \E code \in AuthCodes : SetAuthToken(code) /\ UNCHANGED ledgerVars
    \/ GetAccessToken /\ UNCHANGED ledgerVars
    \/ RevokeToken /\ UNCHANGED ledgerVars
    \/ CompleteStoring

Spec == Init /\ [][NextOAuth]_vars

\* the token store across browser sessions
NextStore ==
    \/ GetAccessToken /\ UNCHANGED ledgerVars
    \/ RevokeToken /\ UNCHANGED ledgerVars
    \/ CompleteStoring
    \/ \E dec \in CryptOutcomes : Restart(dec) /\ UNCHANGED ledgerVars
    \/ \E damage \in Damages, dec \in CryptOutcomes :
          RestartDamaged(damage, dec) /\ UNCHANGED ledgerVars

SpecStore == Init /\ [][NextStore]_vars

(***************************************************************************)
(* The REST wrappers.                                                      *)
(***************************************************************************)
NextRest ==
    \/ GetAccessToken /\ UNCHANGED ledgerVars
    \/ GetAccountBalances /\ UNCHANGED ledgerVars
    \/ GetConvertQuote /\ UNCHANGED ledgerVars
    \/ GetTickerPrice /\ UNCHANGED ledgerVars
    \/ GetTickerVolume /\ UNCHANGED ledgerVars
    \/ GetDepositInfo /\ UNCHANGED ledgerVars
    \/ ConfirmConvert /\ UNCHANGED ledgerVars
    \/ GetConvertAssets /\ UNCHANGED ledgerVars
    \/ RevokeToken /\ UNCHANGED ledgerVars
    \/ CompleteStoring
    \/ CompleteForwarding

SpecRest == Init /\ [][NextRest]_vars

(***************************************************************************)
(* ClearAndInsertList, one transaction at a time, for every list.          *)
(***************************************************************************)
RunTransaction == \E ok \in BOOLEAN : RunDBTransaction(ok) /\ UNCHANGED binanceVars

NextReplace ==
    \/ \E list \in Lists :
          dbQueue = <<>> /\ ClearAndInsertList(list) /\ UNCHANGED binanceVars
    \/ RunTransaction

SpecReplace == Init /\ [][NextReplace]_vars

(***************************************************************************)
(* OnGetRecord on every response.                                          *)
(***************************************************************************)
\* the records a SELECT of status, excluded, address may return
Records == {<<info.status, info.excluded, info.address>> : info \in Infos}
RecordLists == UNION {[1..n -> Records] : n \in 0..MaxRecords}

\* the responses RunDBTransaction may hand to a callback: none, or a status with
\* the records read
DBResponses ==
    {Null} \cup {Some([status |-> st, records |-> recs]) :
                    st \in {"OK", "RESPONSE_ERROR"}, recs \in RecordLists}

InitRecord ==
    /\ InitBinance
    /\ table = {}
    /\ bannerTable = {}
    /\ dbQueue = <<>>
    /\ lastDb \in {[op |-> "response", response |-> response,
                    publisher_key |-> key, banner |-> banner] :
                      response \in DBResponses, key \in PublisherKeys,
                      banner \in Banners \cup {EmptyBanner}}

\* the transaction callback bound by OnGetRecordBanner runs with the response
DeliverRecord ==
    /\ lastDb.op = "response"
    /\ lastDb' = [op |-> "OnGetRecord", publisher_key |-> lastDb.publisher_key,
                  banner |-> lastDb.banner, response |-> lastDb.response,
                  calls |-> OnGetRecord(lastDb.response, lastDb.publisher_key,
                                        lastDb.banner)]
    /\ UNCHANGED <<table, bannerTable, dbQueue, binanceVars>>

SpecRecord == InitRecord /\ [][DeliverRecord]_vars

(***************************************************************************)
(* The ledger database with calls in flight.                               *)
(***************************************************************************)
\* sample lists: empty, a null entry, one publisher, both, and k1 rewritten
SampleLists ==
    { <<>>,
      <<Null>>,
      <<Some(ServerPublisherInfo("k1", 0, FALSE, "a0", Some([title |-> "b1"])))>>,
      <<Some(ServerPublisherInfo("k1", 2, TRUE, "a1", Null)),
        Some(ServerPublisherInfo("k2", 2, FALSE, "a1", Some([title |-> "b2"])))>>,
      <<Some(ServerPublisherInfo("k1", 2, TRUE, "a1", Some([title |-> "b2"])))>> }

LedgerIdle == dbQueue = <<>> /\ lastDb.op = "none"
BinanceIdle == url_loaders_ = <<>> /\ last.op = "LoadTokensFromPrefs"

(***************************************************************************)
(* Every asynchronous operation of the two components.  They share no      *)
(* state, so a behaviour exercises one of them.                            *)
(***************************************************************************)
NextAsync ==
    \/ LedgerIdle /\ GetAccessToken /\ UNCHANGED ledgerVars
    \/ LedgerIdle /\ GetAccountBalances /\ UNCHANGED ledgerVars
    \/ LedgerIdle /\ GetConvertQuote /\ UNCHANGED ledgerVars
    \/ LedgerIdle /\ GetTickerPrice /\ UNCHANGED ledgerVars
    \/ LedgerIdle /\ GetTickerVolume /\ UNCHANGED ledgerVars
    \/ LedgerIdle /\ GetDepositInfo /\ UNCHANGED ledgerVars
    \/ LedgerIdle /\ ConfirmConvert /\ UNCHANGED ledgerVars
    \/ LedgerIdle /\ GetConvertAssets /\ UNCHANGED ledgerVars
    \/ LedgerIdle /\ RevokeToken /\ UNCHANGED ledgerVars
    \/ CompleteStoring
    \/ CompleteForwarding
    \/ \E list \in SampleLists :
          /\ BinanceIdle /\ Len(dbQueue) < MaxQueue
          /\ ClearAndInsertList(list) /\ UNCHANGED binanceVars
    \/ \E key \in PublisherKeys :
          /\ BinanceIdle /\ Len(dbQueue) < MaxQueue
          /\ GetRecord(key) /\ UNCHANGED binanceVars
    \/ RunTransaction

SpecAsync == Init /\ [][NextAsync]_vars

(***************************************************************************)
(* Migration: Migrate is called on a null, an empty or a filled            *)
(* transaction, for every target, with every outcome of the fallible steps. *)
(***************************************************************************)
\* transactions handed to Migrate
MigrateTransactions ==
    {Null, Some(<<>>),
     Some(<<DBCommand("EXECUTE", "DROP TABLE IF EXISTS publisher_info", <<>>)>>)}

\* which of the fallible steps succeed
StepOutcomes == [drop : BOOLEAN, index : BOOLEAN, banner : BOOLEAN]

MigrateCall ==
    \E transaction \in MigrateTransactions, target \in Targets, ok \in StepOutcomes :
        LET done == Migrate(transaction, target, ok)
        IN  /\ lastDb' = [op |-> "Migrate", transaction |-> transaction,
                          target |-> target, ok |-> ok, ret |-> done.ret,
                          result |-> done.transaction]
            /\ UNCHANGED <<table, bannerTable, dbQueue, binanceVars>>

SpecMigrate == Init /\ [][MigrateCall]_vars

(***************************************************************************)
(* Properties.                                                             *)
(***************************************************************************)
\* the row INSERT OR REPLACE stores for info
RowOf(info) ==
    [publisher_key |-> info.publisher_key, status |-> info.status,
     excluded |-> IF info.excluded THEN 1 ELSE 0, address |-> info.address]

\* the transaction of a ClearAndInsertList call has just succeeded
Replaced ==
    /\ lastDb.op = "OnResultCallback"
    /\ lastDb.response # Null
    /\ lastDb.response[1].status = "OK"

\* C1: once the transaction of ClearAndInsertList(list) has succeeded, the
\* table holds exactly one row with the publisher_key of each non-null entry of
\* the list, every row of the table is the row of a non-null entry of the list
\* (so no row of the prior content remains), and for the empty list the table
\* is empty.  Entries that share a key share the one row of that key.
C1_ClearAndInsertReplacesTable ==
    Replaced =>
        LET list == lastDb.list
            present == {i \in 1..Len(list) : list[i] # Null}
        IN  /\ \A i \in present :
                  Cardinality({r \in table :
                      r.publisher_key = list[i][1].publisher_key}) = 1
            /\ \A r \in table : \E i \in present : r = RowOf(list[i][1])
            /\ (list = <<>> => table = {})

\* a list with a null entry and a publisher replaced a table that held a row
\* of another publisher, which is gone
C1_Witness ==
    /\ Replaced
    /\ \E i \in 1..Len(lastDb.list) : lastDb.list[i] = Null
    /\ table # {}
    /\ \E old \in lastDb.before :
          \A r \in table : r.publisher_key # old.publisher_key

\* C2: OnGetRecord hands the callback a null record when the response is
\* missing or not OK, or does not hold exactly one record; otherwise it hands
\* it the record with the requested key, the three columns of the row and the
\* banner.
C2_GetRecordAbsentUnlessOneRow ==
    lastDb.op = "OnGetRecord" =>
        LET ok == lastDb.response # Null /\ lastDb.response[1].status = "OK"
            one == ok /\ Len(lastDb.response[1].records) = 1
        IN  /\ lastDb.calls # <<>>
            /\ \A j \in 1..Len(lastDb.calls) :
                  IF one
                  THEN LET row == lastDb.response[1].records[1]
                       IN  lastDb.calls[j] =
                              Some([publisher_key |-> lastDb.publisher_key,
                                    status |-> row[1], excluded |-> row[2],
                                    address |-> row[3],
                                    banner |-> Some(lastDb.banner)])
                  ELSE lastDb.calls[j] = Null

\* a successful response with two records was answered with a null record
C2_Witness ==
    /\ lastDb.op = "OnGetRecord"
    /\ lastDb.response # Null
    /\ lastDb.response[1].status = "OK"
    /\ Len(lastDb.response[1].records) = 2
    /\ lastDb.calls = <<Null>>

RestHandlers ==
    {"OnGetAccessToken", "OnGetAccountBalances", "OnGetConvertQuote",
     "OnGetTickerPrice", "OnGetTickerVolume", "OnGetDepositInfo",
     "OnConfirmConvert", "OnGetConvertAssets", "OnRevokeToken"}

\* C3: the completion of a transfer or of the last transaction of a database
\* call runs the caller's callback exactly once, whether it succeeded or failed.
C3_CallbackExactlyOnce ==
    /\ last.op \in RestHandlers => Len(last.calls) = 1
    /\ lastDb.op \in {"OnResultCallback", "OnGetRecord"} => Len(lastDb.calls) = 1

\* a failed transfer (no response at all) ran its callback once
C3_Witness ==
    /\ last.op = "OnGetAccountBalances"
    /\ last.status = -1
    /\ Len(last.calls) = 1

\* what each callback receives when nothing was parsed
Defaults(op) ==
    CASE op = "OnGetAccessToken" -> [valid |-> FALSE]
      [] op = "OnGetAccountBalances" -> [balances |-> {}, success |-> FALSE]
      [] op = "OnGetConvertQuote" ->
            [quote_id |-> "", quote_price |-> "", total_fee |-> "",
             total_amount |-> ""]
      [] op = "OnGetTickerPrice" -> [symbol_pair_price |-> "0.00"]
      [] op = "OnGetTickerVolume" -> [symbol_pair_volume |-> "0"]
      [] op = "OnGetDepositInfo" ->
            [deposit_address |-> "", deposit_url |-> "", success |-> FALSE]
      [] op = "OnConfirmConvert" -> [success_status |-> FALSE, error_message |-> ""]
      [] op = "OnGetConvertAssets" -> [assets |-> {}]
      [] op = "OnRevokeToken" -> [success |-> FALSE]

\* C4: a REST call whose response code is outside [200, 299] hands its callback
\* the defaults only, whatever the body.
C4_FailureGivesDefaults ==
    (last.op \in RestHandlers /\ (last.status < 200 \/ last.status > 299)) =>
        last.calls = <<Defaults(last.op)>>

\* a quote request answered 500 with a body that parses got four empty strings
C4_Witness ==
    /\ last.op = "OnGetConvertQuote"
    /\ last.status = 500
    /\ last.body = JsonData
    /\ last.calls = <<Defaults("OnGetConvertQuote")>>

\* both tokens, the PKCE pair and both stored preferences are empty
Cleared ==
    /\ access_token_ = ""
    /\ refresh_token_ = ""
    /\ code_verifier_ = ""
    /\ code_challenge_ = ""
    /\ prefs.kBinanceAccessToken = ""
    /\ prefs.kBinanceRefreshToken = ""

\* C5 as stated, read as speaking of a revoke that the server answers with
\* success: when such a revoke completes in a service that held an access
\* token, both tokens and the PKCE pair are empty in memory and both stored
\* preferences are empty strings.
C5_RevokeClears ==
    (/\ last.op = "OnRevokeToken"
     /\ last.calls = <<[success |-> TRUE]>>
     /\ last.held # "") => Cleared

\* C6: when the service is constructed right after a SetAccessTokens(a, b) that
\* returned success, on the preferences as that call left them, and OSCrypt can
\* decrypt, then LoadTokensFromPrefs returns success and the fields hold a, b.
C6_SaveThenLoad ==
    (/\ last.op = "LoadTokensFromPrefs"
     /\ last.after.called
     /\ last.after.ret
     /\ ~last.damaged
     /\ last.dec = AllCrypt)
    => /\ last.ret
       /\ access_token_ = last.after.access
       /\ refresh_token_ = last.after.refresh

\* two non-empty, different tokens were saved and loaded
C6_Witness ==
    /\ last.op = "LoadTokensFromPrefs"
    /\ last.after.called
    /\ last.after.ret
    /\ last.dec = AllCrypt
    /\ last.after.access = "acc1"
    /\ last.after.refresh = "ref1"
    /\ access_token_ = "acc1"
    /\ refresh_token_ = "ref1"

\* C7 as stated: whenever LoadTokensFromPrefs returns failure both token fields
\* are empty.
C7_FailedLoadLeavesFieldsEmpty ==
    (last.op = "LoadTokensFromPrefs" /\ ~last.ret) =>
        (access_token_ = "" /\ refresh_token_ = "")

\* a handler has just called SetAccessTokens and the call returned failure
SetFailed(l) ==
    /\ l.op \in {"OnGetAccessToken", "OnRevokeToken"}
    /\ l.set.called
    /\ ~l.set.ret

\* C8: a step in which SetAccessTokens fails to encrypt either string leaves
\* both preferences as they were.
C8_FailedSaveWritesNothing ==
    [][SetFailed(last') => prefs' = prefs]_vars

\* the access token was encrypted, the refresh token was not, and the stored
\* access preference is not the encoding of the new access token
C8_Witness ==
    /\ SetFailed(last)
    /\ last.set.failed = "refresh"
    /\ last.set.access # ""
    /\ prefs.kBinanceAccessToken
          # Base64Encode(EncryptString(last.set.access, TRUE).out)

\* C9: when GetAccessToken returns the stored code is empty, and the code of
\* one SetAuthToken call goes into at most one token-exchange request.
C9_CodeSentAtMostOnce ==
    /\ last.op = "GetAccessToken" => auth_token_ = ""
    /\ codeSends <= 1

\* after a code was sent once, a further GetAccessToken sent an empty code
C9_Witness ==
    /\ last.op = "GetAccessToken"
    /\ last.code = ""
    /\ codeSends = 1
    /\ auth_token_ = ""

\* C10 as stated: once the token exchange that follows GetOAuthClientUrl has
\* completed, and once a revoke has succeeded, the verifier and the challenge
\* are empty.
C10_PkceClearedAfterUse ==
    /\ last.op = "OnGetAccessToken" =>
          (code_verifier_ = "" /\ code_challenge_ = "")
    /\ (last.op = "OnRevokeToken" /\ last.calls = <<[success |-> TRUE]>>) =>
          (code_verifier_ = "" /\ code_challenge_ = "")

\* the handler each request binds to its loader
HandlerOf(op) ==
    CASE op = "GetAccessToken" -> "OnGetAccessToken"
      [] op = "GetAccountBalances" -> "OnGetAccountBalances"
      [] op = "GetConvertQuote" -> "OnGetConvertQuote"
      [] op = "GetTickerPrice" -> "OnGetTickerPrice"
      [] op = "GetTickerVolume" -> "OnGetTickerVolume"
      [] op = "GetDepositInfo" -> "OnGetDepositInfo"
      [] op = "ConfirmConvert" -> "OnConfirmConvert"
      [] op = "GetConvertAssets" -> "OnGetConvertAssets"
      [] op = "RevokeToken" -> "OnRevokeToken"

RequestOps ==
    {"GetAccessToken", "GetAccountBalances", "GetConvertQuote", "GetTickerPrice",
     "GetTickerVolume", "GetDepositInfo", "ConfirmConvert", "GetConvertAssets",
     "RevokeToken"}

\* seq without its i-th element
Without(seq, i) == [j \in 1..(Len(seq) - 1) |-> IF j < i THEN seq[j] ELSE seq[j + 1]]

\* C11: url_loaders_ holds the requests dispatched and not yet completed.  A
\* step that dispatches a request adds its handle and leaves the others as
\* they were; a step that completes a request, in whatever position, removes
\* the handle of the request whose handler runs and no other.  The collection
\* starts empty, so it is empty again once every request has completed.
C11_LoadersAreOutstandingRequests ==
    [][/\ last'.op \in RequestOps =>
              url_loaders_' = <<[callback |-> HandlerOf(last'.op)]>> \o url_loaders_
       /\ last'.op \in RestHandlers =>
              \E i \in 1..Len(url_loaders_) :
                  /\ url_loaders_[i].callback = last'.op
                  /\ url_loaders_' = Without(url_loaders_, i)]_vars

\* the request dispatched first completed while a later one, of another kind,
\* stays outstanding; or the later one completed first
C11_Witness ==
    /\ last.op = "OnGetAccountBalances"
    /\ url_loaders_ = <<[callback |-> "OnGetTickerPrice"]>>

\* the command texts of a transaction's commands, in order
CommandTexts(commands) == [i \in 1..Len(commands) |-> commands[i].command]

\* the steps of the migration to 7, in order, each with the text of its command
\* and whether it succeeds under ok
StepsV7(ok) ==
    <<[text |-> "DROP TABLE IF EXISTS server_publisher_info", ok |-> ok.drop],
      [text |-> "CREATE TABLE server_publisher_info", ok |-> TRUE],
      [text |-> "CREATE INDEX ON server_publisher_info (publisher_key)",
       ok |-> ok.index],
      [text |-> "MIGRATE server_publisher_banner", ok |-> ok.banner]>>

\* the number of steps that run to success before the first failure
RanV7(ok) ==
    LET failing == {i \in 1..4 : ~StepsV7(ok)[i].ok}
    IN  IF failing = {} THEN 4
        ELSE (CHOOSE i \in failing : \A j \in failing : i <= j) - 1

\* C12: Migrate on a null transaction returns failure.  Otherwise target 7
\* appends, in this order, drop table, create table, create index and the
\* banner store's migration to 7, stops at the first step that fails and
\* returns success only if none did; target 15 appends only the banner store's
\* migration to 15 and returns its result; every other target appends nothing
\* and returns success.  What the transaction held before stays in front.
C12_MigrateDispatch ==
    lastDb.op = "Migrate" =>
        IF lastDb.transaction = Null
        THEN ~lastDb.ret /\ lastDb.result = Null
        ELSE LET before == lastDb.transaction[1]
                 after == lastDb.result[1]
                 added == SubSeq(after, Len(before) + 1, Len(after))
             IN  /\ lastDb.result # Null
                 /\ Len(after) >= Len(before)
                 /\ SubSeq(after, 1, Len(before)) = before
                 /\ CASE lastDb.target = 7 ->
                           /\ CommandTexts(added) =
                                 [i \in 1..RanV7(lastDb.ok) |->
                                     StepsV7(lastDb.ok)[i].text]
                           /\ Len(added) = 4 => added[4].binds = <<7>>
                           /\ lastDb.ret = (RanV7(lastDb.ok) = 4)
                      [] lastDb.target = 15 ->
                           /\ lastDb.ret = lastDb.ok.banner
                           /\ IF lastDb.ok.banner
                              THEN /\ CommandTexts(added) =
                                         <<"MIGRATE server_publisher_banner">>
                                   /\ added[1].binds = <<15>>
                              ELSE added = <<>>
                      [] OTHER -> added = <<>> /\ lastDb.ret

\* the migration to 7 of a filled transaction stopped at the index, after the
\* drop and the create, and returned failure
C12_Witness ==
    /\ lastDb.op = "Migrate"
    /\ lastDb.target = 7
    /\ lastDb.transaction # Null
    /\ lastDb.ok = [drop |-> TRUE, index |-> FALSE, banner |-> TRUE]
    /\ ~lastDb.ret
    /\ Len(lastDb.result[1]) = Len(lastDb.transaction[1]) + 2
    /\ Len(lastDb.transaction[1]) = 1

\* the record a GetRecord(key) that sees only what list wrote would deliver for
\* the entry e of list
RecordOf(e) ==
    Some([publisher_key |-> e.publisher_key, status |-> e.status,
          excluded |-> e.excluded, address |-> e.address,
          banner |-> Some(IF e.banner = Null THEN EmptyBanner ELSE e.banner[1])])

\* C13 as stated: a record that GetRecord delivers has its row and its banner
\* from one ClearAndInsertList call, that is, it is the record of an entry of
\* one of the lists that were written.
C13_RecordOfOneGeneration ==
    (lastDb.op = "OnGetRecord" /\ lastDb.calls # <<>> /\ lastDb.calls[1] # Null) =>
        \E list \in SampleLists : \E i \in 1..Len(list) :
            /\ list[i] # Null
            /\ lastDb.calls[1] = RecordOf(list[i][1])

\* C14 as stated: at every moment of a running service a LoadTokensFromPrefs
\* that can decrypt would succeed on the stored preferences and give the pair
\* of tokens the service holds in memory.
C14_MemoryEqualsStored ==
    LET load == LoadTokensFromPrefs(prefs, "", "", AllCrypt)
    IN  /\ load.ret
        /\ access_token_ = load.access_token_
        /\ refresh_token_ = load.refresh_token_

\* C15 as stated: a step in which a token exchange completes and its callback
\* is told false leaves both token fields and both preferences as they were.
C15_FailedExchangeKeepsTokens ==
    [][(last'.op = "OnGetAccessToken" /\ last'.calls = <<[valid |-> FALSE]>>)
          => UNCHANGED <<access_token_, refresh_token_, prefs>>]_vars

====
